---- MODULE Spec2Model ----
(***************************************************************************)
(* Model of gopc, an implementation of the Open Packaging Convention:      *)
(* the part registry (pkg), the content-type table (contentTypes), the     *)
(* relationship validation (relationship.go) and the archive Writer.       *)
(*                                                                         *)
(* A Go string is modelled as a sequence of one-character strings, so that *)
(* byte order (sort.Strings), letter case (strings.ToUpper/ToLower),       *)
(* prefixes, suffixes and path segments are computed as the code computes  *)
(* them.                                                                   *)
(***************************************************************************)
EXTENDS Integers, Sequences, FiniteSets, TLC

VARIABLES
    parts,         \* pkg.parts: upper-cased name -> Part
    contentTypes,  \* pkg.contentTypes: [defaults, overrides]
    call,          \* the last call made and the error it returned
    nOps,          \* number of calls made so far
    last,          \* Writer.last: the part opened last, or NoPart
    archive,       \* the entries written to the zip archive, in order
    closed,        \* the zip archive has been finalized
    relation,      \* relationshipsPart.relation: source -> relationships
    verdict,       \* source -> result of the last validation of its list
    encoded,       \* the XML document written last, and what it was written from
    decoded        \* the result of the last decoding of a document

vars == <<parts, contentTypes, call, nOps, last, archive, closed, relation, verdict,
          encoded, decoded>>

(***************************************************************************)
(* Bounds of the model.                                                    *)
(***************************************************************************)
MaxOps == 3

MaxRels == 2

MaxEntries == 3

(***************************************************************************)
(* Characters and strings.                                                 *)
(***************************************************************************)
Lowers == <<"a", "b", "c", "d", "e", "f", "g", "h", "i", "j", "k", "l", "m",
            "n", "o", "p", "q", "r", "s", "t", "u", "v", "w", "x", "y", "z">>

Uppers == <<"A", "B", "C", "D", "E", "F", "G", "H", "I", "J", "K", "L", "M",
            "N", "O", "P", "Q", "R", "S", "T", "U", "V", "W", "X", "Y", "Z">>

IndexIn(c, alphabet) ==
    IF \E i \in 1..Len(alphabet) : alphabet[i] = c
    THEN CHOOSE i \in 1..Len(alphabet) : alphabet[i] = c
    ELSE 0

\* The byte value of a character, which is what sort.Strings compares.
Code(c) ==
    CASE IndexIn(c, Lowers) > 0 -> 96 + IndexIn(c, Lowers)
      [] IndexIn(c, Uppers) > 0 -> 64 + IndexIn(c, Uppers)
      [] c = " " -> 32
      [] c = "%" -> 37
      [] c = "." -> 46
      [] c = "/" -> 47
      [] c = ":" -> 58
      [] c = "[" -> 91
      [] c = "]" -> 93
      [] c = "_" -> 95

ToUpperChar(c) == IF IndexIn(c, Lowers) > 0 THEN Uppers[IndexIn(c, Lowers)] ELSE c

ToLowerChar(c) == IF IndexIn(c, Uppers) > 0 THEN Lowers[IndexIn(c, Uppers)] ELSE c

ToUpper(s) == [i \in 1..Len(s) |-> ToUpperChar(s[i])]

ToLower(s) == [i \in 1..Len(s) |-> ToLowerChar(s[i])]

HasPrefix(s, prefix) ==
    /\ Len(s) >= Len(prefix)
    /\ SubSeq(s, 1, Len(prefix)) = prefix

HasSuffix(s, suffix) ==
    /\ Len(s) >= Len(suffix)
    /\ SubSeq(s, Len(s) - Len(suffix) + 1, Len(s)) = suffix

EqualFold(s, t) == ToUpper(s) = ToUpper(t)

\* s < t in the byte order of Go strings.
Less(s, t) ==
    \E i \in 1..(Len(s) + 1) :
        /\ i <= Len(t)
        /\ SubSeq(s, 1, i - 1) = SubSeq(t, 1, i - 1)
        /\ \/ i = Len(s) + 1
           \/ i <= Len(s) /\ Code(s[i]) < Code(t[i])

RECURSIVE SortStrings(_)
\* sort.Strings: the keys in increasing byte order, duplicates kept.
SortStrings(keys) ==
    IF keys = <<>> THEN <<>>
    ELSE LET rest == SortStrings(Tail(keys))
             k == Head(keys)
             n == Cardinality({i \in 1..Len(rest) : Less(rest[i], k)})
         IN SubSeq(rest, 1, n) \o <<k>> \o SubSeq(rest, n + 1, Len(rest))

\* Index of the last occurrence of c in s, 0 when there is none.
LastIndex(s, c) ==
    IF \E i \in 1..Len(s) : s[i] = c
    THEN CHOOSE i \in 1..Len(s) : s[i] = c /\ \A j \in (i + 1)..Len(s) : s[j] # c
    ELSE 0

\* filepath.Ext: the suffix starting at the final dot of the final element.
Ext(path) ==
    LET slash == LastIndex(path, "/")
        dot == LastIndex(path, ".")
    IN IF dot > slash THEN SubSeq(path, dot, Len(path)) ELSE <<>>

RECURSIVE Split(_, _)
\* strings.Split(s, sep) for a one-character separator.
Split(s, sep) ==
    IF \A i \in 1..Len(s) : s[i] # sep THEN <<s>>
    ELSE LET i == CHOOSE i \in 1..Len(s) :
                      s[i] = sep /\ \A j \in 1..(i - 1) : s[j] # sep
         IN <<SubSeq(s, 1, i - 1)>> \o Split(SubSeq(s, i + 1, Len(s)), sep)

\* strings.TrimSpace(s) = "" for the strings of the model.
IsBlank(s) == \A i \in 1..Len(s) : s[i] = " "

(***************************************************************************)
(* Part names and content types used as inputs.                            *)
(***************************************************************************)
ValidNames ==
    { <<"/", "a">>,
      <<"/", "A">>,
      <<"/", "a", ".", "x">>,
      <<"/", "a", ".", "X">>,
      <<"/", "b", ".", "x">>,
      <<"/", "a", "/", "b">>,
      <<"/", "a", "b">> }

InvalidNames ==
    { <<"a", ".", "x">>,
      <<"/", "a", "/">>,
      <<"/", "a", ".">> }

PartNames == ValidNames \cup InvalidNames

ContentTypes ==
    { <<"a", "/", "b">>,
      <<"A", "/", "b">>,
      <<"c", "/", "d">>,
      <<"a", "b">> }

NoPart == [Name |-> <<>>, ContentType |-> <<>>, Relationships |-> <<>>]

NoCall == [op |-> "none", name |-> <<>>, contentType |-> <<>>, err |-> "nil"]

\* No document has been written yet: kind of document, what it was written
\* from, and its elements in document order.
NoDocument == [kind |-> "none", of |-> <<>>, doc |-> <<>>]

\* No document has been decoded yet: the error returned, the kind of
\* document, what the document was written from and the value returned.
NotDecoded == [err |-> "nil", kind |-> "none", of |-> <<>>, val |-> <<>>]

(***************************************************************************)
(* Part.validate: name and content type of a part.                         *)
(***************************************************************************)
NameChars == {"/", ".", "_"} \cup {Lowers[i] : i \in 1..Len(Lowers)}
                 \cup {Uppers[i] : i \in 1..Len(Uppers)}

validatePartName(name) ==
    /\ name # <<>>
    /\ ~IsBlank(name)
    /\ name[1] = "/"
    /\ name[Len(name)] # "/"
    /\ \A i \in 1..Len(name) : name[i] \in NameChars
    /\ LET segments == Tail(Split(name, "/"))
       IN \A i \in 1..Len(segments) :
              /\ segments[i] # <<>>
              /\ segments[i] # <<".">>
              /\ segments[i] # <<".", ".">>
              /\ segments[i][Len(segments[i])] # "."

validateContentType(contentType) ==
    LET t == Split(contentType, "/")
    IN /\ Len(t) = 2
       /\ t[1] # <<>>
       /\ t[2] # <<>>
       /\ \A i \in 1..Len(contentType) : contentType[i] # " "

validate(part) ==
    validatePartName(part.Name) /\ validateContentType(part.ContentType)

(***************************************************************************)
(* contentTypes: the default/override table.                               *)
(***************************************************************************)
EmptyMap == [k \in {} |-> <<>>]

MapPut(m, k, v) == [x \in DOMAIN m \cup {k} |-> IF x = k THEN v ELSE m[x]]

MapDelete(m, k) == [x \in DOMAIN m \ {k} |-> m[x]]

\* mime.ParseMediaType followed by mime.FormatMediaType, for a media type
\* without parameters: type and subtype come out in lower case.
FormatMediaType(contentType) == ToLower(contentType)

addOverride(c, partName, contentType) ==
    [c EXCEPT !.overrides = MapPut(c.overrides, partName, contentType)]

addDefault(c, extension, contentType) ==
    [c EXCEPT !.defaults = MapPut(c.defaults, extension, contentType)]

\* Mutant: a differing content type replaces the default of the extension.
ctAddReplacingDefault(c, partName, contentType) ==
    LET ct == FormatMediaType(contentType)
        ext == ToLower(Ext(partName))
    IN IF Len(ext) = 0 THEN addOverride(c, partName, ct)
       ELSE addDefault(c, Tail(ext), ct)

ctAdd(c, partName, contentType) ==
    LET ct == FormatMediaType(contentType)
        ext == ToLower(Ext(partName))
        e == Tail(ext)
    IN IF Len(ext) = 0 THEN addOverride(c, partName, ct)
       ELSE IF e \in DOMAIN c.defaults
            THEN IF c.defaults[e] # ct THEN addOverride(c, partName, ct) ELSE c
            ELSE addDefault(c, e, ct)

\* The result of findType: the content type and the error.
findType(c, name) ==
    IF ToUpper(name) \in DOMAIN c.overrides
    THEN [contentType |-> c.overrides[ToUpper(name)], err |-> "nil"]
    ELSE LET ext == Ext(name)
         IN IF ext # <<>> /\ Tail(ext) \in DOMAIN c.defaults
            THEN [contentType |-> c.defaults[Tail(ext)], err |-> "nil"]
            ELSE [contentType |-> <<>>, err |-> "208"]

(***************************************************************************)
(* pkg: the registry of parts.                                             *)
(***************************************************************************)
\* Mutant: the lookup compares names exactly.
partExistsExact(p, partName) == \E k \in DOMAIN p : p[k].Name = partName

\* Mutant: the name is looked up in lower case.
partExistsLower(p, partName) == ToLower(partName) \in DOMAIN p

partExists(p, partName) == ToUpper(partName) \in DOMAIN p

\* Mutant: a textual prefix counts, whatever follows it.
checkStringsPrefixCollisionAnyPrefix(s1, s2) ==
    /\ HasPrefix(s1, s2)
    /\ Len(s1) > Len(s2)

checkStringsPrefixCollision(s1, s2) ==
    /\ HasPrefix(s1, s2)
    /\ Len(s1) > Len(s2)
    /\ s1[Len(s2) + 1] = "/"

RECURSIVE SetToSeq(_)
SetToSeq(S) ==
    IF S = {} THEN <<>>
    ELSE LET x == CHOOSE x \in S : TRUE IN <<x>> \o SetToSeq(S \ {x})

checkPrefixCollision(p, uri) ==
    LET keys == SortStrings(<<uri>> \o SetToSeq(DOMAIN p))
    IN \E i \in 1..Len(keys) :
           /\ keys[i] = uri
           /\ \/ i > 1 /\ checkStringsPrefixCollision(uri, keys[i - 1])
              \/ i < Len(keys) /\ checkStringsPrefixCollision(keys[i + 1], uri)

\* The error pkg.add returns for the part, "nil" when it is accepted.
addError(p, part) ==
    LET upperURI == ToUpper(part.Name)
    IN IF ~validate(part) THEN "validate"
       ELSE IF partExists(p, upperURI) THEN "112"
       ELSE IF checkPrefixCollision(p, upperURI) THEN "111"
       ELSE "nil"

\* Mutant: the content type is registered before the name is checked.
pkgAddEager(p, c, part) ==
    IF ~validate(part) THEN [parts |-> p, contentTypes |-> c, err |-> "validate"]
    ELSE IF addError(p, part) # "nil"
    THEN [parts |-> p, contentTypes |-> ctAdd(c, part.Name, part.ContentType),
          err |-> addError(p, part)]
    ELSE [parts |-> MapPut(p, ToUpper(part.Name), part),
          contentTypes |-> ctAdd(c, part.Name, part.ContentType),
          err |-> "nil"]

pkgAdd(p, c, part) ==
    IF addError(p, part) # "nil"
    THEN [parts |-> p, contentTypes |-> c, err |-> addError(p, part)]
    ELSE [parts |-> MapPut(p, ToUpper(part.Name), part),
          contentTypes |-> ctAdd(c, part.Name, part.ContentType),
          err |-> "nil"]

deletePart(p, uri) == MapDelete(p, ToUpper(uri))


(***************************************************************************)
(* net/url as relationship.go uses it: Parse, IsAbs, String and            *)
(* ResolveReference, for references without host, query and fragment.      *)
(***************************************************************************)
IsLetter(c) == IndexIn(c, Lowers) > 0 \/ IndexIn(c, Uppers) > 0

IsHex(c) == c \in {"a", "b", "c", "d", "e", "f", "A", "B", "C", "D", "E", "F"}

\* Length of the scheme of the reference: 0 when it has none, -1 when the
\* reference starts with a colon (url.Parse: missing protocol scheme).
SchemeLen(s) ==
    LET stops == {i \in 1..Len(s) : ~IsLetter(s[i]) /\ ~(s[i] = "." /\ i > 1)}
    IN IF stops = {} THEN 0
       ELSE LET i == CHOOSE i \in stops : \A j \in stops : i <= j
            IN IF s[i] # ":" THEN 0 ELSE IF i = 1 THEN -1 ELSE i - 1

\* url.Parse returns an error.
ParseFails(s) ==
    \/ SchemeLen(s) = -1
    \/ \E i \in 1..Len(s) :
           /\ s[i] = "%"
           /\ ~(i + 2 <= Len(s) /\ IsHex(s[i + 1]) /\ IsHex(s[i + 2]))

TrimSpace(s) ==
    LET keep == {i \in 1..Len(s) : s[i] # " "}
    IN IF keep = {} THEN <<>>
       ELSE SubSeq(s, CHOOSE i \in keep : \A j \in keep : i <= j,
                      CHOOSE i \in keep : \A j \in keep : i >= j)

IsAbs(uri) == SchemeLen(uri) > 0

RECURSIVE Join(_, _)
\* strings.Join(elems, sep)
Join(elems, sep) ==
    IF elems = <<>> THEN <<>>
    ELSE IF Len(elems) = 1 THEN elems[1]
    ELSE elems[1] \o sep \o Join(Tail(elems), sep)

RECURSIVE RemoveDotSegments(_, _)
\* The loop of url.resolvePath: "." is dropped, ".." drops the element
\* before it, anything else is kept.
RemoveDotSegments(src, dst) ==
    IF src = <<>> THEN dst
    ELSE LET elem == Head(src)
         IN RemoveDotSegments(Tail(src),
                IF elem = <<".">> THEN dst
                ELSE IF elem = <<".", ".">>
                     THEN (IF Len(dst) > 0 THEN SubSeq(dst, 1, Len(dst) - 1) ELSE dst)
                     ELSE Append(dst, elem))

resolvePath(base, ref) ==
    LET full == IF ref = <<>> THEN base
                ELSE IF ref[1] # "/"
                     THEN SubSeq(base, 1, LastIndex(base, "/")) \o ref
                     ELSE ref
        src == Split(full, "/")
        kept == RemoveDotSegments(src, <<>>)
        dst == IF src[Len(src)] \in {<<".">>, <<".", ".">>}
               THEN Append(kept, <<>>) ELSE kept
        joined == Join(dst, <<"/">>)
    IN IF full = <<>> THEN <<>>
       ELSE <<"/">> \o (IF HasPrefix(joined, <<"/">>) THEN Tail(joined) ELSE joined)

\* source.ResolveReference(uri).String() for a relative uri.
ResolveReference(source, uri) == resolvePath(source, uri)

(***************************************************************************)
(* Relationships and their validation.                                     *)
(***************************************************************************)
ModeInternal == "Internal"

ModeExternal == "External"

DotRELS == <<".", "R", "E", "L", "S">>

\* Mutant: the letter case of the uri is not folded.
isRelationshipURIExact(uri) ==
    /\ HasSuffix(uri, DotRELS)
    /\ \/ uri = <<"/", "_", "R", "E", "L", "S", "/">> \o DotRELS
       \/ LET segments == Split(uri, "/")
              ls == Len(segments)
          IN /\ ls >= 3
             /\ Len(segments[ls]) > Len(DotRELS)
             /\ segments[ls - 1] = <<"_", "R", "E", "L", "S">>

isRelationshipURI(uri) ==
    LET up == ToUpper(uri)
        segments == Split(up, "/")
        ls == Len(segments)
    IN IF ~HasSuffix(up, DotRELS) THEN FALSE
       ELSE IF EqualFold(up, <<"/", "_", "R", "E", "L", "S", "/">> \o DotRELS) THEN TRUE
       ELSE IF EqualFold(up, <<"_", "r", "e", "l", "s", "/", ".", "r", "e", "l", "s">>) THEN TRUE
       ELSE IF ls >= 3 /\ Len(segments[ls]) > Len(DotRELS)
            THEN EqualFold(segments[ls - 1], <<"_", "R", "E", "L", "S">>)
            ELSE FALSE

\* The error validateRelationshipTarget returns, "nil" when there is none.
validateRelationshipTarget(sourceURI, targetURI, targetMode) ==
    LET uri == TrimSpace(targetURI)
        source == TrimSpace(sourceURI)
    IN IF ParseFails(uri) \/ uri = <<>> THEN "targetURI"
       ELSE IF targetMode = ModeInternal /\ IsAbs(uri) THEN "targetNotRelative"
       ELSE IF targetMode # ModeExternal /\ ~IsAbs(uri)
            THEN IF ParseFails(source) \/ source = <<>> THEN "sourceURI"
                 ELSE IF isRelationshipURI(ResolveReference(source, uri))
                      THEN "relationshipsPartTarget"
                      ELSE "nil"
            ELSE "nil"

\* The error Relationship.validate returns, "nil" when there is none.
relValidate(r) ==
    IF IsBlank(r.ID) THEN "emptyID"
    ELSE IF IsBlank(r.RelType) THEN "emptyType"
    ELSE validateRelationshipTarget(r.sourceURI, r.TargetURI, r.TargetMode)

\* Mutant: the IDs seen so far are not compared.
validateRelationshipsNoIDs(rs) ==
    IF \E i \in 1..Len(rs) : relValidate(rs[i]) # "nil"
    THEN relValidate(rs[CHOOSE i \in 1..Len(rs) :
                            /\ relValidate(rs[i]) # "nil"
                            /\ \A j \in 1..(i - 1) : relValidate(rs[j]) = "nil"])
    ELSE "nil"

\* The error validateRelationships returns: that of the first relationship
\* that is invalid or repeats the ID of an earlier one.
validateRelationships(rs) ==
    LET bad == {i \in 1..Len(rs) :
                   \/ relValidate(rs[i]) # "nil"
                   \/ \E j \in 1..(i - 1) : rs[j].ID = rs[i].ID}
    IN IF bad = {} THEN "nil"
       ELSE LET i == CHOOSE i \in bad : \A j \in bad : i <= j
            IN IF relValidate(rs[i]) # "nil" THEN relValidate(rs[i])
               ELSE "duplicateID"

findRelationship(rp, name) == IF name \in DOMAIN rp THEN rp[name] ELSE <<>>

addRelationship(rp, name, r) == MapPut(rp, name, r)

(***************************************************************************)
(* The registry driven by add and deletePart calls.                        *)
(***************************************************************************)
NewPart(name, contentType) ==
    [Name |-> name, ContentType |-> contentType, Relationships |-> <<>>]

Init ==
    /\ parts = EmptyMap
    /\ contentTypes = [overrides |-> EmptyMap, defaults |-> EmptyMap]
    /\ call = NoCall
    /\ nOps = 0
    /\ last = NoPart
    /\ archive = <<>>
    /\ closed = FALSE
    /\ relation = EmptyMap
    /\ verdict = EmptyMap
    /\ encoded = NoDocument
    /\ decoded = NotDecoded

Add(name, contentType) ==
    /\ nOps < MaxOps
    /\ LET r == pkgAdd(parts, contentTypes, NewPart(name, contentType))
       IN /\ parts' = r.parts
          /\ contentTypes' = r.contentTypes
          /\ call' = [op |-> "add", name |-> name, contentType |-> contentType,
                      err |-> r.err]
    /\ nOps' = nOps + 1
    /\ UNCHANGED <<last, archive, closed, relation, verdict, encoded, decoded>>

DeletePart(name) ==
    /\ nOps < MaxOps
    /\ parts' = deletePart(parts, name)
    /\ call' = [op |-> "deletePart", name |-> name, contentType |-> <<>>,
                err |-> "nil"]
    /\ nOps' = nOps + 1
    /\ UNCHANGED <<contentTypes, last, archive, closed, relation, verdict, encoded, decoded>>

AddAny == \E name \in PartNames, contentType \in ContentTypes : Add(name, contentType)

DeleteAny == \E name \in PartNames : DeletePart(name)

Next == AddAny \/ DeleteAny

Spec == Init /\ [][Next]_vars

(***************************************************************************)
(* Properties of the registry and the content-type table.                  *)
(***************************************************************************)
\* A step of the registry specification in which an add call returned err.
AddReturned(err) == nOps' # nOps /\ call'.op = "add" /\ call'.err = err

AddFailed == nOps' # nOps /\ call'.op = "add" /\ call'.err # "nil"

\* short is a path-prefix of long at a segment boundary, ignoring case.
IsPathPrefix(short, long) ==
    /\ Len(long) > Len(short)
    /\ ToUpper(SubSeq(long, 1, Len(short))) = ToUpper(short)
    /\ long[Len(short) + 1] = "/"

RegisteredNames == {parts[k].Name : k \in DOMAIN parts}

\* C1: no registered part name is a path-prefix of another registered part
\* name at a segment boundary, whatever the other registered names are.
C1_NoPrefixCollision ==
    \A n1 \in RegisteredNames, n2 \in RegisteredNames : ~IsPathPrefix(n1, n2)

\* C2: no two registered parts have names equal ignoring case, every part is
\* registered under its own name, and an add of a name that equals a
\* registered one ignoring case is rejected, with DuplicateError (112) when
\* the part passes validation, and leaves the registry as it was.
C2_UniqueNames ==
    [][/\ \A k1 \in DOMAIN parts', k2 \in DOMAIN parts' :
              EqualFold(parts'[k1].Name, parts'[k2].Name) => k1 = k2
       /\ (/\ nOps' # nOps
           /\ call'.op = "add"
           /\ \E n \in RegisteredNames : EqualFold(n, call'.name))
          => /\ call'.err # "nil"
             /\ validate(NewPart(call'.name, call'.contentType))
                    => call'.err = "112"
             /\ parts' = parts]_vars

C2_Witness ==
    /\ call.op = "add"
    /\ call.err = "112"
    /\ \E n \in RegisteredNames : EqualFold(n, call.name) /\ n # call.name

\* C3: for every registered part findType succeeds and returns the
\* canonical form of the content type the part was added with.
C3_FindTypeOfParts ==
    \A k \in DOMAIN parts :
        findType(contentTypes, parts[k].Name) =
            [contentType |-> FormatMediaType(parts[k].ContentType), err |-> "nil"]

\* C4: a successful add changes the table in exactly one way: an override
\* for a name without extension; a new default and no override when the
\* extension has none; nothing when the default equals the content type; an
\* override when the default differs. Registered defaults keep their value.
C4_AddEffect ==
    [][AddReturned("nil") =>
        LET n == call'.name
            ct == FormatMediaType(call'.contentType)
            e == Tail(ToLower(Ext(n)))
            d == contentTypes.defaults
            o == contentTypes.overrides
            d2 == contentTypes'.defaults
            o2 == contentTypes'.overrides
        IN /\ \A x \in DOMAIN d : x \in DOMAIN d2 /\ d2[x] = d[x]
           /\ IF Ext(n) = <<>>
              THEN d2 = d /\ o2 = MapPut(o, n, ct)
              ELSE IF e \notin DOMAIN d
                   THEN d2 = MapPut(d, e, ct) /\ o2 = o
                   ELSE IF d[e] = ct
                        THEN d2 = d /\ o2 = o
                        ELSE d2 = d /\ o2 = MapPut(o, n, ct)]_vars

C4_Witness ==
    /\ call.op = "add"
    /\ call.err = "nil"
    /\ Ext(call.name) # <<>>
    /\ call.name \in DOMAIN contentTypes.overrides
    /\ contentTypes.defaults[Tail(ToLower(Ext(call.name)))]
           # contentTypes.overrides[call.name]

\* C5: two names that differ only in letter case resolve to the same
\* result of findType.
C5_FindTypeIgnoresCase ==
    \A n1 \in ValidNames, n2 \in ValidNames :
        EqualFold(n1, n2) =>
            findType(contentTypes, n1) = findType(contentTypes, n2)

(***************************************************************************)
(* The relationships of each source, built up and validated.               *)
(***************************************************************************)
Rels == <<"_", "r", "e", "l", "s">>

DotRels == <<".", "r", "e", "l", "s">>

Relationship(id, relType, targetURI, targetMode, sourceURI) ==
    [sourceURI |-> sourceURI, ID |-> id, RelType |-> relType,
     TargetURI |-> targetURI, TargetMode |-> targetMode]

RelSources == { <<"/">>, <<"/", "a", ".", "x">> }

\* ID and target of the relationships a caller attaches to a source.
RelInputs ==
    { [ID |-> <<"r">>, TargetURI |-> <<"/", "b", ".", "x">>],
      [ID |-> <<"s">>, TargetURI |-> <<"/", "b", ".", "x">>],
      [ID |-> <<"r">>, TargetURI |-> <<"/">> \o Rels \o <<"/", "a">> \o DotRels],
      [ID |-> <<" ">>, TargetURI |-> <<"/", "b", ".", "x">>] }

AddRelationship(name, in) ==
    /\ Len(findRelationship(relation, name)) < MaxRels
    /\ relation' = addRelationship(relation, name,
           Append(findRelationship(relation, name),
                  Relationship(in.ID, <<"t">>, in.TargetURI, ModeInternal, name)))
    /\ UNCHANGED <<parts, contentTypes, call, nOps, last, archive, closed, verdict, encoded, decoded>>

ValidateRelationships(name) ==
    /\ verdict' = MapPut(verdict, name,
           [err |-> validateRelationships(findRelationship(relation, name)),
            rs |-> findRelationship(relation, name)])
    /\ UNCHANGED <<parts, contentTypes, call, nOps, last, archive, closed, relation, encoded, decoded>>

AddRelationshipAny == \E name \in RelSources, in \in RelInputs : AddRelationship(name, in)

ValidateRelationshipsAny == \E name \in RelSources : ValidateRelationships(name)

NextRel == AddRelationshipAny \/ ValidateRelationshipsAny

SpecRel == Init /\ [][NextRel]_vars

RepeatsID(rs) == \E i \in 1..Len(rs), j \in 1..Len(rs) : i # j /\ rs[i].ID = rs[j].ID

\* C7: the validation of one source's list fails whenever two of its
\* relationships share an ID, and a list of valid relationships with
\* distinct IDs passes whatever IDs the lists of other sources use.
C7_IDsUniquePerSource ==
    \A s \in DOMAIN verdict :
        /\ RepeatsID(verdict[s].rs) => verdict[s].err # "nil"
        /\ (/\ ~RepeatsID(verdict[s].rs)
            /\ \A i \in 1..Len(verdict[s].rs) : relValidate(verdict[s].rs[i]) = "nil")
           => verdict[s].err = "nil"

C7_Witness ==
    \E s1 \in DOMAIN verdict, s2 \in DOMAIN verdict :
        /\ s1 # s2
        /\ verdict[s1].rs # <<>>
        /\ verdict[s1].err = "nil"
        /\ verdict[s2].err = "duplicateID"
        /\ verdict[s1].rs[1].ID = verdict[s2].rs[1].ID

(***************************************************************************)
(* Relationship.validate applied to single relationships.                  *)
(***************************************************************************)
TargetSources ==
    { <<"/">>,
      <<"/", "a", ".", "x">>,
      <<"/", "d", "/", "a", ".", "x">>,
      <<"/", "d", "/", "e", "/", "a", ".", "x">>,
      <<"/">> \o Rels \o <<"/", "a", ".", "x">> \o DotRels,
      <<"/">> \o Rels \o <<"/">> \o DotRels,
      <<>> }

TargetURIs ==
    { <<"/">> \o Rels \o <<"/">> \o DotRels,
      <<"/", "_", "R", "E", "L", "S", "/", ".", "R", "e", "l", "s">>,
      Rels \o <<"/">> \o DotRels,
      Rels \o <<"/", "a">> \o DotRels,
      <<"/", "d", "/">> \o Rels \o <<"/", "a", ".", "x">> \o DotRels,
      <<".", ".", "/">> \o Rels \o <<"/", "a">> \o DotRels,
      <<" ", "/">> \o Rels \o <<"/", "a">> \o DotRels,
      <<"/", "b", ".", "x">>,
      <<"a">> \o DotRels,
      <<"x", ":", "/">> \o Rels \o <<"/", "a">> \o DotRels,
      <<"/", "a", "%">>,
      <<" ">>,
      <<>> }

ValidateRelationship(r) ==
    /\ call' = [op |-> "validate", err |-> relValidate(r), rel |-> r]
    /\ UNCHANGED <<parts, contentTypes, nOps, last, archive, closed, relation, verdict, encoded, decoded>>

NextValidate ==
    \E id \in {<<"r">>, <<" ">>}, relType \in {<<"t">>, <<>>},
       targetURI \in TargetURIs, targetMode \in {ModeInternal, ModeExternal},
       sourceURI \in TargetSources :
        ValidateRelationship(Relationship(id, relType, targetURI, targetMode, sourceURI))

SpecValidate == Init /\ [][NextValidate]_vars

\* name is the name of a relationships part: the root '/_rels/.rels' or
\* '.../_rels/<name>.rels', in any letter case.
IsRelationshipsPartName(name) ==
    LET low == ToLower(name)
        segments == Split(low, "/")
        n == Len(segments)
    IN \/ low = <<"/">> \o Rels \o <<"/">> \o DotRels
       \/ /\ n >= 3
          /\ segments[1] = <<>>
          /\ segments[n - 1] = Rels
          /\ Len(segments[n]) > Len(DotRels)
          /\ HasSuffix(segments[n], DotRels)

WithMode(r, targetMode) ==
    Relationship(r.ID, r.RelType, r.TargetURI, targetMode, r.sourceURI)

\* The relationship validated has a relative target that parses and that
\* resolves, relative to the source, to the name of a relationships part.
TargetsRelationshipsPart(r) ==
    LET uri == TrimSpace(r.TargetURI)
    IN /\ uri # <<>>
       /\ ~ParseFails(uri)
       /\ ~IsAbs(uri)
       /\ IsRelationshipsPartName(ResolveReference(TrimSpace(r.sourceURI), uri))

\* C8: a relationship whose target resolves, relative to its source, to the
\* name of a relationships part fails validation with mode Internal; with
\* mode External the same relationship (ID and type not blank) passes.
C8_RelationshipsPartTarget ==
    (call.op = "validate" /\ TargetsRelationshipsPart(call.rel)) =>
        /\ relValidate(WithMode(call.rel, ModeInternal)) # "nil"
        /\ (~IsBlank(call.rel.ID) /\ ~IsBlank(call.rel.RelType)) =>
               relValidate(WithMode(call.rel, ModeExternal)) = "nil"
        /\ call.err = relValidate(call.rel)

C8_Witness ==
    /\ call.op = "validate"
    /\ TargetsRelationshipsPart(call.rel)
    /\ call.rel.TargetMode = ModeInternal
    /\ call.rel.TargetURI = <<".", ".", "/">> \o Rels \o <<"/", "a">> \o DotRels
    /\ call.err = "relationshipsPartTarget"

(***************************************************************************)
(* The Writer: parts are created one after another in a zip archive, the   *)
(* relationships of a part are flushed when the next part is created or    *)
(* the writer is closed, and Close writes the content types last.          *)
(***************************************************************************)
contentTypesName ==
    <<"/", "[", "C", "o", "n", "t", "e", "n", "t", "_", "T", "y", "p", "e",
      "s", "]", ".", "x", "m", "l">>

packageRelName == <<"/">> \o Rels \o <<"/">> \o DotRels

relationshipContentType ==
    <<"a", "p", "p", "l", "i", "c", "a", "t", "i", "o", "n", "/", "v", "n",
      "d", ".", "o", "p", "e", "n", "x", "m", "l", "f", "o", "r", "m", "a",
      "t", "s", "-", "p", "a", "c", "k", "a", "g", "e", ".", "r", "e", "l",
      "a", "t", "i", "o", "n", "s", "h", "i", "p", "s", "+", "x", "m", "l">>

CompressionOptions == {"None", "Normal", "Maximum", "Fast", "SuperFast"}

\* Relationship.toXML
relToXML(r) ==
    [ID |-> r.ID, RelType |-> r.RelType,
     TargetURI |-> IF /\ r.TargetMode = ModeInternal
                      /\ ~HasPrefix(r.TargetURI, <<"/">>)
                      /\ ~HasPrefix(r.TargetURI, <<"\\">>)
                      /\ ~HasPrefix(r.TargetURI, <<".">>)
                   THEN <<"/">> \o r.TargetURI ELSE r.TargetURI,
     Mode |-> IF r.TargetMode = ModeExternal THEN "External" ELSE ""]

\* The Relationship elements encodeRelationships writes.
encodeRelationships(rs) == [i \in 1..Len(rs) |-> relToXML(rs[i])]

\* Mutant: the overrides are left out.
toXMLDefaultsOnly(c) ==
    {[ContentType |-> c.defaults[e], tag |-> "Default", key |-> e] :
         e \in DOMAIN c.defaults}

\* Mutant: a Default element for the relationships parts is always there.
toXMLWithRelsDefault(c) ==
    {[ContentType |-> relationshipContentType, tag |-> "Default", key |-> Tail(DotRels)]}
    \cup {[ContentType |-> c.defaults[e], tag |-> "Default", key |-> e] :
              e \in DOMAIN c.defaults}
    \cup {[ContentType |-> c.overrides[pn], tag |-> "Override", key |-> pn] :
              pn \in DOMAIN c.overrides}

\* The Default and Override elements contentTypes.toXML collects.
toXML(c) ==
    {[ContentType |-> c.defaults[e], tag |-> "Default", key |-> e] :
         e \in DOMAIN c.defaults}
    \cup {[ContentType |-> c.overrides[pn], tag |-> "Override", key |-> pn] :
              pn \in DOMAIN c.overrides}

\* Name of the relationships part of a part: _rels/<name>.rels next to it.
RelsName(partName) ==
    LET slash == LastIndex(partName, "/")
    IN SubSeq(partName, 1, slash) \o Rels \o <<"/">>
           \o SubSeq(partName, slash + 1, Len(partName)) \o DotRels

Entry(name, kind, rels, types) ==
    [name |-> name, kind |-> kind, rels |-> rels, types |-> types]

PartEntry(part) == Entry(part.Name, "part", <<>>, {})

RelsEntry(name, rs) == Entry(name, "rels", encodeRelationships(rs), {})

Writer(p, c, ar, l, err) ==
    [parts |-> p, contentTypes |-> c, archive |-> ar, last |-> l, err |-> err]

\* Registers the relationships part `name` and writes rs to it. (Each
\* intermediate result is bound as the one element of a set, so that it is
\* computed once.)
writeRelationships(w, name, rs) ==
    CHOOSE out \in
        { IF v # "nil"
          THEN Writer(w.parts, w.contentTypes, w.archive, w.last, v)
          ELSE IF r.err # "nil"
          THEN Writer(w.parts, w.contentTypes, w.archive, w.last, r.err)
          ELSE Writer(r.parts, r.contentTypes,
                      Append(w.archive, RelsEntry(name, rs)), NoPart, "nil") :
          v \in {validateRelationships(rs)},
          r \in {pkgAdd(w.parts, w.contentTypes,
                        NewPart(name, relationshipContentType))} } : TRUE

\* Writer.createRelationships: flushes the relationships of the last part.
createRelationships(w) ==
    IF w.last = NoPart \/ Len(w.last.Relationships) = 0
    THEN Writer(w.parts, w.contentTypes, w.archive, w.last, "nil")
    ELSE CHOOSE out \in
             { writeRelationships(w, name, w.last.Relationships) :
               name \in {RelsName(w.last.Name)} } : TRUE

\* Registers the part and opens its archive entry.
writerAdd(w, part, compression) ==
    CHOOSE out \in
        { IF r.err # "nil"
          THEN Writer(w.parts, w.contentTypes, w.archive, w.last, r.err)
          ELSE IF compression \notin CompressionOptions
          THEN Writer(w.parts, w.contentTypes, w.archive, w.last, "zip")
          ELSE Writer(r.parts, r.contentTypes,
                      Append(w.archive, PartEntry(part)), part, "nil") :
          r \in {pkgAdd(w.parts, w.contentTypes, part)} } : TRUE

\* Writer.CreatePart
createPart(w, part, compression) ==
    CHOOSE out \in
        { IF f.err # "nil" THEN f ELSE writerAdd(f, part, compression) :
          f \in {createRelationships(w)} } : TRUE

\* The root relationships part, written when the package has root
\* relationships.
createRootRelationships(w, rs) ==
    IF Len(rs) = 0 THEN w
    ELSE CHOOSE out \in
             { Writer(r.parts, r.contentTypes, r.archive, w.last, r.err) :
               r \in {writeRelationships(w, packageRelName, rs)} } : TRUE

\* The content-types part, written from the table as it is now.
createContentTypes(w) ==
    IF partExists(w.parts, contentTypesName)
    THEN Writer(w.parts, w.contentTypes, w.archive, w.last, "112")
    ELSE Writer(MapPut(w.parts, ToUpper(contentTypesName),
                       NewPart(contentTypesName, <<>>)),
                w.contentTypes,
                Append(w.archive,
                       Entry(contentTypesName, "contentTypes", <<>>,
                             toXML(w.contentTypes))),
                w.last, "nil")

\* The steps of Close after the flush f of the last part's relationships.
closeFlushed(w, f, rootRels) ==
    IF f.err # "nil"
    THEN Writer(w.parts, w.contentTypes, w.archive, w.last, f.err)
    ELSE CHOOSE out \in
             { IF r.err # "nil"
               THEN Writer(f.parts, f.contentTypes, f.archive, f.last, r.err)
               ELSE createContentTypes(r) :
               r \in {createRootRelationships(f, rootRels)} } : TRUE

\* Writer.Close, up to the finalization of the archive.
close(w, rootRels) ==
    CHOOSE out \in
        { closeFlushed(w, f, rootRels) : f \in {createRelationships(w)} } : TRUE

ThisWriter == Writer(parts, contentTypes, archive, last, "nil")

\* The parts a caller creates: name, content type and relationships.
WriterRel(name, id) ==
    Relationship(id, <<"t">>, <<"/", "b", ".", "x">>, ModeInternal, name)

WriterParts ==
    LET A == <<"/", "a", ".", "x">>
        B == <<"/", "b", ".", "x">>
        T1 == <<"a", "/", "b">>
        T2 == <<"c", "/", "d">>
        P(n, t, rs) == [Name |-> n, ContentType |-> t, Relationships |-> rs]
    IN { P(A, T1, <<>>),
         P(A, T1, <<WriterRel(A, <<"r">>)>>),
         P(A, T2, <<WriterRel(A, <<"r">>), WriterRel(A, <<"r">>)>>),
         P(B, T1, <<>>),
         P(B, T2, <<WriterRel(B, <<"r">>), WriterRel(B, <<"s">>)>>),
         P(B, T1, <<WriterRel(B, <<" ">>)>>),
         P(<<"/", "A", ".", "X">>, T1, <<>>),
         P(RelsName(A), T1, <<>>),
         P(<<"/">> \o Rels, T1, <<>>),
         P(<<"a", ".", "x">>, T1, <<>>),
         P(B, <<"a", "b">>, <<>>) }

WriterCompressions == {"Normal", "Unknown"}

RootRelationships == findRelationship(relation, <<"/">>)

CreatePart(part, compression) ==
    /\ ~closed
    /\ Len(archive) < MaxEntries
    /\ \E w \in {createPart(ThisWriter, part, compression)} :
          /\ parts' = w.parts
          /\ contentTypes' = w.contentTypes
          /\ archive' = w.archive
          /\ last' = w.last
          /\ call' = [op |-> "CreatePart", err |-> w.err]
    /\ UNCHANGED <<nOps, closed, relation, verdict, encoded, decoded>>

CreateRootRelationship(id) ==
    /\ ~closed
    /\ Len(RootRelationships) < MaxRels
    /\ relation' = addRelationship(relation, <<"/">>,
           Append(RootRelationships, WriterRel(<<"/">>, id)))
    /\ call' = [op |-> "CreateRelationship", err |-> "nil"]
    /\ UNCHANGED <<parts, contentTypes, nOps, last, archive, closed, verdict, encoded, decoded>>

Close ==
    /\ \E w \in {close(ThisWriter, RootRelationships)} :
          /\ parts' = w.parts
          /\ contentTypes' = w.contentTypes
          /\ archive' = w.archive
          /\ last' = w.last
          /\ call' = [op |-> "Close", err |-> w.err]
          /\ closed' = (closed \/ w.err = "nil")
    /\ UNCHANGED <<nOps, relation, verdict, encoded, decoded>>

CreatePartAny ==
    \E part \in WriterParts, compression \in WriterCompressions :
        CreatePart(part, compression)

CreateRootRelationshipAny == \E id \in {<<"r">>, <<"s">>} : CreateRootRelationship(id)

NextWriter == CreatePartAny \/ CreateRootRelationshipAny \/ Close

SpecWriter == Init /\ [][NextWriter]_vars

(***************************************************************************)
(* Properties of the Writer.                                               *)
(***************************************************************************)
\* The part opened last has relationships that are not flushed yet.
Pending == last # NoPart /\ Len(last.Relationships) > 0

\* rs holds an invalid relationship or two relationships with the same ID.
RelationshipsInvalid(rs) ==
    RepeatsID(rs) \/ \E i \in 1..Len(rs) : relValidate(rs[i]) # "nil"

LastRelsPart == NewPart(RelsName(last.Name), relationshipContentType)

LastRelsEntry == RelsEntry(RelsName(last.Name), last.Relationships)

Extends(longer, shorter) ==
    /\ Len(longer) >= Len(shorter)
    /\ SubSeq(longer, 1, Len(shorter)) = shorter

C9_FlushBeforeNextPart ==
    [][call'.op = "CreatePart" =>
        /\ Extends(archive', archive)
        /\ call'.err = "nil" =>
               /\ Len(archive') > Len(archive)
               /\ archive'[Len(archive')].kind = "part"
        /\ ~Pending => Len(archive') <= Len(archive) + 1
        /\ \A i \in (Len(archive) + 1)..Len(archive') :
               archive'[i].kind = "rels" => i = Len(archive) + 1 /\ Pending
        /\ Pending =>
               /\ (\/ RelationshipsInvalid(last.Relationships)
                   \/ partExists(parts, RelsName(last.Name)))
                      => call'.err # "nil" /\ archive' = archive
               /\ archive' # archive =>
                      /\ ~RelationshipsInvalid(last.Relationships)
                      /\ archive[Len(archive)] = PartEntry(last)
                      /\ archive'[Len(archive) + 1] = LastRelsEntry
                      /\ Len(archive') <= Len(archive) + 2
                      /\ Len(archive') = Len(archive) + 2
                             => archive'[Len(archive')].kind = "part"]_vars

C9_Witness ==
    /\ call.op = "CreatePart"
    /\ call.err = "nil"
    /\ Len(archive) = 3
    /\ archive[1].kind = "part"
    /\ archive[2].kind = "rels"
    /\ archive[2].name = RelsName(archive[1].name)
    /\ Len(archive[2].rels) = 2
    /\ archive[3].kind = "part"

\* The Default and Override elements that reflect the table c.
ReflectsTable(types, c) ==
    /\ \A e \in DOMAIN c.defaults :
           \E t \in types :
               t.tag = "Default" /\ t.key = e /\ t.ContentType = c.defaults[e]
    /\ \A pn \in DOMAIN c.overrides :
           \E t \in types :
               t.tag = "Override" /\ t.key = pn /\ t.ContentType = c.overrides[pn]
    /\ \A t \in types :
           \/ t.tag = "Default" /\ t.key \in DOMAIN c.defaults
           \/ t.tag = "Override" /\ t.key \in DOMAIN c.overrides
    /\ Cardinality(types) =
           Cardinality(DOMAIN c.defaults) + Cardinality(DOMAIN c.overrides)

\* C10: a successful Close flushes the pending relationships of the last
\* part and then writes the content types as the last entry; from then on
\* the archive holds exactly one content-types entry, the last one, and it
\* reflects the table; a Close that finds the content-types name registered
\* fails and writes no content-types entry.
C10_ContentTypesLast ==
    [][/\ (call'.op = "Close" /\ call'.err = "nil") =>
              /\ Extends(archive', archive)
              /\ archive'[Len(archive')].kind = "contentTypes"
              /\ Pending => archive'[Len(archive) + 1] = LastRelsEntry
              /\ closed'
       /\ (call'.op = "Close" /\ partExists(parts, contentTypesName)) =>
              /\ call'.err # "nil"
              /\ \A i \in 1..Len(archive') :
                     archive'[i].kind = "contentTypes" =>
                         i <= Len(archive) /\ archive[i] = archive'[i]
       /\ closed' =>
              /\ Len(archive') > 0
              /\ \A i \in 1..Len(archive') :
                     (\/ archive'[i].kind = "contentTypes"
                      \/ EqualFold(archive'[i].name, contentTypesName))
                         <=> i = Len(archive')
              /\ archive'[Len(archive')].name = contentTypesName
              /\ ReflectsTable(archive'[Len(archive')].types, contentTypes')
       /\ ~closed' =>
              \A i \in 1..Len(archive') : archive'[i].kind # "contentTypes"]_vars

C10_Witness ==
    /\ call.op = "Close"
    /\ call.err = "nil"
    /\ closed
    /\ Len(archive) = 4
    /\ archive[3].kind = "rels"
    /\ archive[4].kind = "contentTypes"
    /\ DOMAIN contentTypes.overrides # {}

\* C11: a Close after a successful Close returns (with an error or without)
\* and adds, duplicates and alters no archive entry; the registered parts
\* and the content-type table stay as the first Close left them, and the
\* writer stays closed.
C11_SecondCloseChangesNothing ==
    [][(closed /\ call'.op = "Close") =>
          /\ call'.err \in {"nil", "112", "111", "validate", "zip", "duplicateID",
                            "emptyID", "emptyType", "targetURI", "targetNotRelative",
                            "sourceURI", "relationshipsPartTarget"}
          /\ archive' = archive
          /\ parts' = parts
          /\ contentTypes' = contentTypes
          /\ closed']_vars

C11_Witness ==
    /\ closed
    /\ call.op = "Close"
    /\ call.err # "nil"
    /\ Len(archive) = 4
    /\ archive[2].kind = "rels"
    /\ archive[3].name = packageRelName
    /\ archive[4].kind = "contentTypes"

(***************************************************************************)
(* The content-type table written as XML and read back.                    *)
(***************************************************************************)
\* The orders in which a range over a Go map may visit the elements of S.
Perms(S) ==
    {f \in [1..Cardinality(S) -> S] : \A x \in S : \E i \in 1..Cardinality(S) : f[i] = x}

\* The documents pkg.encodeContentTypes may write for the table: the
\* Default elements in the order the range over c.defaults visits them,
\* then the Override elements in the order of the range over c.overrides.
encodeContentTypes(c) ==
    {d \o o :
         d \in Perms({t \in toXML(c) : t.tag = "Default"}),
         o \in Perms({t \in toXML(c) : t.tag = "Override"})}

RECURSIVE decodeTypes(_, _)
\* The loop of decodeContentTypes over the elements read, from the table ct.
decodeTypes(types, ct) ==
    IF types = <<>> THEN [ct |-> ct, err |-> "nil"]
    ELSE LET c == Head(types)
             ext == ToLower(c.key)
             partName == ToUpper(c.key)
             failed(err) == [ct |-> [overrides |-> EmptyMap, defaults |-> EmptyMap],
                             err |-> err]
         IN IF c.tag = "Default"
            THEN IF ext = <<>> THEN failed("206")
                 ELSE IF ext \in DOMAIN ct.defaults THEN failed("205")
                 ELSE decodeTypes(Tail(types), addDefault(ct, ext, c.ContentType))
            ELSE IF partName \in DOMAIN ct.overrides THEN failed("205")
                 ELSE decodeTypes(Tail(types), addOverride(ct, partName, c.ContentType))

decodeContentTypes(types) ==
    decodeTypes(types, [overrides |-> EmptyMap, defaults |-> EmptyMap])

EncodeContentTypes ==
    /\ \E doc \in encodeContentTypes(contentTypes) :
          encoded' = [kind |-> "types", of |-> contentTypes, doc |-> doc]
    /\ UNCHANGED <<parts, contentTypes, call, nOps, last, archive, closed, relation,
                   verdict, decoded>>

DecodeContentTypes ==
    /\ encoded.kind = "types"
    /\ \E r \in {decodeContentTypes(encoded.doc)} :
          decoded' = [err |-> r.err, kind |-> "types", of |-> encoded.of, val |-> r.ct]
    /\ UNCHANGED <<parts, contentTypes, call, nOps, last, archive, closed, relation,
                   verdict, encoded>>

NextTypes == AddAny \/ EncodeContentTypes \/ DecodeContentTypes

SpecTypes == Init /\ [][NextTypes]_vars

\* C12: every part name that findType resolves on a table built by add
\* calls is resolved to the same content type by findType on the table
\* decoded from the encoding of that table.
C12_RoundTrip ==
    decoded.kind = "types" =>
        \A n \in ValidNames :
            findType(decoded.of, n).err = "nil" =>
                /\ decoded.err = "nil"
                /\ findType(decoded.val, n) = findType(decoded.of, n)

\* C13: encoding the same table again writes the same sequence of Default
\* and Override elements.
C13_EncodingDeterministic ==
    [][(/\ encoded.kind = "types"
        /\ encoded'.kind = "types"
        /\ encoded'.of = encoded.of) => encoded'.doc = encoded.doc]_vars

(***************************************************************************)
(* The registry accepts what it has no reason to reject.                   *)
(***************************************************************************)
\* C14: an add of a valid part whose name equals no registered name
\* ignoring case, and is no boundary-prefix of a registered name nor has one
\* as its boundary-prefix, succeeds and registers the part; a collision
\* (111) is reported only when a registered name and the new one are
\* boundary-prefixes, never for names that merely share a textual prefix.
C14_NoFalseRejection ==
    [][(nOps' # nOps /\ call'.op = "add") =>
          /\ (/\ validate(NewPart(call'.name, call'.contentType))
              /\ \A n \in RegisteredNames :
                     /\ ~EqualFold(n, call'.name)
                     /\ ~IsPathPrefix(n, call'.name)
                     /\ ~IsPathPrefix(call'.name, n))
             => /\ call'.err = "nil"
                /\ parts' = MapPut(parts, ToUpper(call'.name),
                                   NewPart(call'.name, call'.contentType))
          /\ call'.err = "111" =>
                 \E n \in RegisteredNames :
                     IsPathPrefix(n, call'.name) \/ IsPathPrefix(call'.name, n)]_vars

C14_Witness ==
    /\ call.op = "add"
    /\ call.err = "nil"
    /\ call.name = <<"/", "a", "b">>
    /\ RegisteredNames = {<<"/", "a">>, <<"/", "a", "b">>, <<"/", "a", ".", "x">>}

(***************************************************************************)
(* Close on a writer without parts.                                        *)
(***************************************************************************)
\* No part has been created on the writer.
NoPartCreated == parts = EmptyMap /\ archive = <<>>

EmptyTypesEntry == Entry(contentTypesName, "contentTypes", <<>>, {})

C16_RelationshipsPartHoldsNone ==
    call.op = "validate" =>
        /\ IsRelationshipsPartName(TrimSpace(call.rel.sourceURI)) => call.err # "nil"
        /\ (TargetsRelationshipsPart(call.rel) /\ call.rel.TargetMode = ModeInternal)
               => call.err # "nil"

(***************************************************************************)
(* The relationships of a part written as XML and read back.               *)
(***************************************************************************)
\* decodeRelationships: the relationships read from the elements of a
\* document; the source is not restored.
decodeRelationships(doc) ==
    [i \in 1..Len(doc) |->
        Relationship(doc[i].ID, doc[i].RelType, doc[i].TargetURI,
                     IF doc[i].Mode = "" THEN ModeInternal ELSE ModeExternal,
                     <<>>)]

CodecSource == <<"/", "d", "/", "a", ".", "x">>

\* ID, target and mode of the relationships a caller attaches to the part.
CodecInputs ==
    { [ID |-> id, TargetURI |-> t.TargetURI, TargetMode |-> t.TargetMode] :
          id \in {<<"r">>, <<"s">>},
          t \in { [TargetURI |-> <<"/", "b", ".", "x">>, TargetMode |-> ModeInternal],
                  [TargetURI |-> <<"b", ".", "x">>, TargetMode |-> ModeInternal],
                  [TargetURI |-> <<"x", ":", "/", "b">>, TargetMode |-> ModeExternal] } }

AttachRelationship(in) ==
    /\ Len(findRelationship(relation, CodecSource)) < MaxRels
    /\ relation' = addRelationship(relation, CodecSource,
           Append(findRelationship(relation, CodecSource),
                  Relationship(in.ID, <<"t">>, in.TargetURI, in.TargetMode, CodecSource)))
    /\ UNCHANGED <<parts, contentTypes, call, nOps, last, archive, closed, verdict,
                   encoded, decoded>>

\* The relationships of the part are validated and, when valid, written.
EncodeRelationships ==
    /\ validateRelationships(findRelationship(relation, CodecSource)) = "nil"
    /\ encoded' = [kind |-> "rels", of |-> findRelationship(relation, CodecSource),
                   doc |-> encodeRelationships(findRelationship(relation, CodecSource))]
    /\ UNCHANGED <<parts, contentTypes, call, nOps, last, archive, closed, relation,
                   verdict, decoded>>

DecodeRelationships ==
    /\ encoded.kind = "rels"
    /\ decoded' = [err |-> "nil", kind |-> "rels", of |-> encoded.of,
                   val |-> decodeRelationships(encoded.doc)]
    /\ UNCHANGED <<parts, contentTypes, call, nOps, last, archive, closed, relation,
                   verdict, encoded>>

AttachRelationshipAny == \E in \in CodecInputs : AttachRelationship(in)

NextRelCodec == AttachRelationshipAny \/ EncodeRelationships \/ DecodeRelationships

SpecRelCodec == Init /\ [][NextRelCodec]_vars

\* C17: the relationships decoded from the encoding of a list that passed
\* validation are as many as the list holds, in the same order, and each
\* has the ID, type, target URI and target mode of the original.
C17_RelationshipsRoundTrip ==
    decoded.kind = "rels" =>
        /\ decoded.err = "nil"
        /\ Len(decoded.val) = Len(decoded.of)
        /\ \A i \in 1..Len(decoded.of) :
               /\ decoded.val[i].ID = decoded.of[i].ID
               /\ decoded.val[i].RelType = decoded.of[i].RelType
               /\ decoded.val[i].TargetURI = decoded.of[i].TargetURI
               /\ decoded.val[i].TargetMode = decoded.of[i].TargetMode

====
